---- MODULE Spec2Model ----
(***************************************************************************)
(* work-stack (Electron): the application registry kept in electron-store  *)
(* by the main process (main.js), the renderer that edits it through IPC   *)
(* (App.vue, preload electronAPI), the launch dispatcher (launch-app       *)
(* handler and the Edge helper module), the Edge batch launcher            *)
(* (research/open-vscode.js) and the main window (main.js:11-68).          *)
(*                                                                         *)
(* Strings the source writes in Chinese are written here as ASCII tokens   *)
(* (the parser accepts ASCII strings only); each token names its source    *)
(* text in the comment at its definition.                                  *)
(***************************************************************************)
EXTENDS Integers, Sequences, FiniteSets, Bags, TLC

(***************************************************************************)
(* Bounds of the model.                                                    *)
(***************************************************************************)
\* Date.now() ranges over 1..MaxTime
MaxTime == 3
\* adds are issued while the collection (plus adds in flight) is shorter
MaxApps == 3
\* the same, in the specification of the add form
MaxFormApps == 1
\* IPC requests and responses in flight at the same time
MaxInFlight == 2
\* the same, in the specification of the add form
MaxFormInFlight == 1
\* the same, in the specification of the dispatcher
MaxLaunchInFlight == 1
\* exec callbacks outstanding at the same time
MaxExec == 2
\* adds are issued while the collection is shorter, in the specification of
\* all operations
MaxFrameApps == 2
\* urls in one batch
MaxUrls == 3
\* BrowserWindows constructed in one run of the application
MaxWindows == 3

(***************************************************************************)
(* Input values.                                                           *)
(***************************************************************************)
\* what the user types into the name field
Names == {"A"}
\* what the file dialog returns
Paths == {"/opt/tool.exe"}
\* what the user types into the args/url field
ArgTexts == {"-v"}
UrlTexts == {"https://a.com"}
\* options of the category select that the model picks
CategoryChoices == {"work"}
Platforms == {"win32", "darwin", "linux"}
\* a value of process.platform that the code does not name
OtherPlatforms == {"freebsd"}

\* App.vue:290  the default category (source text: wei-fen-lei, "uncategorized")
Uncategorized == "uncategorized"
\* App.vue:270  (source text: "please enter the application name")
ErrName == "ERR_NAME_REQUIRED"
\* App.vue:275  (source text: "please choose the software path")
ErrPath == "ERR_PATH_REQUIRED"
\* App.vue:280  (source text: "please enter the url")
ErrUrl == "ERR_URL_REQUIRED"
\* App.vue:339  (source text: "launching the application failed")
ErrLaunch == "ERR_LAUNCH_FAILED"
\* App.vue:238  (source text: "loading the applications failed: <message>")
ErrLoad == "ERR_LOAD_FAILED"
\* App.vue:307  (source text: "saving the application failed: <message>")
ErrSave == "ERR_SAVE_FAILED"
\* App.vue:317  (source text: "deleting the application failed: <message>")
ErrDelete == "ERR_DELETE_FAILED"

\* store.get('apps') when the key was never set
Absent == "undefined"
\* localStorage.getItem('customCategories') when the item was never set
NoItem == "null"
\* App.vue:178  the categories of a fresh install (source text: three Chinese
\* names, "entertainment", "work", "documents")
DefaultCategories == << "fun", "work", "docs" >>
\* App.vue:25,202,207  the pseudo-category
All == "all"
\* what the user types into the field of the add-category dialog
NewCategoryTexts == {"work", "all"}
\* two names that are not yet categories
MoreCategoryTexts == {"all", "games"}
\* no result of a launch-app call is on its way to the renderer
NoLaunch == [handled |-> FALSE]
\* the batch launcher has not been called
NoBatch == [called |-> FALSE]
\* open-vscode.js:42  a value that is not an array (Array.isArray is false)
NoUrls == [isArray |-> FALSE]
\* open-vscode.js:43  (source text: "please provide a valid URL array")
ErrInvalidUrls == "ERR_INVALID_URLS"
\* the urls a batch is made of
BatchUrlTexts == {"https://a.com", "https://b.com"}
\* open-vscode.js:87-91  the list of the module-level call
UrlsToOpen == << "https://www.bing.com", "https://www.github.com", "https://www.stackoverflow.com" >>

VARIABLES
  store,       \* main.js:7     electron-store value of key 'apps' (Absent or a sequence)
  now,         \* Date.now()
  apps,        \* App.vue:173   apps.value
  error,       \* App.vue:175   error.value
  newApp,      \* App.vue:180   the add form
  toMain,      \* ipcRenderer.invoke requests not yet handled, in order
  toRenderer,  \* responses not yet consumed by the awaiting renderer code, in order
  platform,    \* process.platform
  edgeAvailable, \* whether require('./src/research/open-edge-single') finds the module
  edgeLoaded,  \* whether the module is in the require cache
  pendingExec, \* child_process.exec calls whose callback has not run
  console,     \* the last console.error line of the main process
  launched,    \* the launch-app call whose result is on its way to the renderer:
               \* its argument, its result and the commands it handed to exec
  customCategories,     \* App.vue:178   customCategories.value
  newCategory,          \* App.vue:177   newCategory.value
  showAddCategoryModal, \* App.vue:176   showAddCategoryModal.value
  localStorage,         \* localStorage item 'customCategories' (NoItem or a list)
  assigned,             \* history: the ids addNewApp has given to targets, where it is kept
  urls,                 \* open-vscode.js:41  the argument openEdgeWithMultipleUrls is called with
  batch,                \* that call once made: the commands it handed to exec, the line it logged
  selectedCategory,     \* App.vue:174   selectedCategory.value
  appPhase,             \* main.js:55    "starting" until whenReady resolves, "ready", then "quit"
  mainWindow,           \* main.js:11    the global reference: undefined, null or a window
  windows,              \* the BrowserWindows that exist
  created,              \* how many BrowserWindows were constructed
  isDev,                \* main.js:33
  allClosed             \* a window-all-closed event is emitted and not yet handled

regVars == <<store, now, apps, error, newApp, toMain, toRenderer>>
dispVars == <<platform, edgeAvailable, edgeLoaded, pendingExec, console, launched>>
catVars == <<customCategories, newCategory, showAddCategoryModal, localStorage>>
batchVars == <<urls, batch>>
winVars == <<appPhase, mainWindow, windows, created, isDev, allClosed>>
sideVars == <<batchVars, selectedCategory, winVars>>
vars == <<store, now, apps, error, newApp, toMain, toRenderer,
          platform, edgeAvailable, edgeLoaded, pendingExec, console, launched,
          customCategories, newCategory, showAddCategoryModal, localStorage, assigned, sideVars>>

(***************************************************************************)
(* Pure helpers.                                                           *)
(***************************************************************************)
\* main.js:72,76,83   store.get('apps') || []
StoreGet(s) == IF s = Absent THEN << >> ELSE s

\* main.js:169  path.basename(filePath, '.exe'): directories and the extension dropped
Basename(p) == IF p = "/opt/tool.exe" THEN "tool" ELSE p

\* App.vue:180-188
EmptyForm ==
  [name |-> "", category |-> "", type |-> "software", path |-> "",
   args |-> "", browser |-> "edge", url |-> ""]

\* mutant of ValidationError: the check of the path is left out
ValidationErrorNoPath(f) ==
  IF f.name = "" THEN ErrName
  ELSE IF f.type = "browser" /\ f.url = "" THEN ErrUrl
  ELSE ""

\* mutant of ValidationError: the check of the url is left out
ValidationErrorNoUrl(f) ==
  IF f.name = "" THEN ErrName
  ELSE IF f.type = "software" /\ f.path = "" THEN ErrPath
  ELSE ""

\* App.vue:269-282  the message of the first failed check, or "" when all pass
ValidationError(f) ==
  IF f.name = "" THEN ErrName
  ELSE IF f.type = "software" /\ f.path = "" THEN ErrPath
  ELSE IF f.type = "browser" /\ f.url = "" THEN ErrUrl
  ELSE ""

\* App.vue:286-295
\* mutant of AppToSave: the category is stored as the form holds it
AppToSaveNoDefault(f, t) ==
  [id |-> ToString(t),
   name |-> f.name,
   type |-> f.type,
   category |-> f.category,
   path |-> IF f.type = "software" THEN f.path ELSE "",
   args |-> IF f.type = "software" THEN f.args ELSE "",
   browser |-> IF f.type = "browser" THEN f.browser ELSE "edge",
   url |-> IF f.type = "browser" THEN f.url ELSE ""]

AppToSave(f, t) ==
  [id |-> ToString(t),
   name |-> f.name,
   type |-> f.type,
   category |-> IF f.category # "" THEN f.category ELSE Uncategorized,
   path |-> IF f.type = "software" THEN f.path ELSE "",
   args |-> IF f.type = "software" THEN f.args ELSE "",
   browser |-> IF f.type = "browser" THEN f.browser ELSE "edge",
   url |-> IF f.type = "browser" THEN f.url ELSE ""]

\* App.vue:300-304  the form after a successful add (type and browser are kept)
ResetForm(f) ==
  [f EXCEPT !.name = "", !.path = "", !.args = "", !.url = "", !.category = ""]

\* main.js:71-73
GetAppsHandler(s) == [store |-> s, ret |-> StoreGet(s)]

\* mutant of SaveAppHandler: unshift in place of push
SaveAppHandlerUnshift(s, app) ==
  LET pushed == << app >> \o StoreGet(s)
  IN [store |-> pushed, ret |-> pushed]

\* mutant of SaveAppHandler: store.set is left out
SaveAppHandlerNotStored(s, app) ==
  LET pushed == Append(StoreGet(s), app)
  IN [store |-> s, ret |-> pushed]

\* mutant of SaveAppHandler: an upsert keyed by name, which drops the stored
\* targets of the same name before it pushes
SaveAppHandlerUpsert(s, app) ==
  LET pushed == Append(SelectSeq(StoreGet(s), LAMBDA a : a.name # app.name), app)
  IN [store |-> pushed, ret |-> pushed]

\* mutant of SaveAppHandler: the collection is written from a fresh array, so
\* what was stored before is lost
SaveAppHandlerOverwrite(s, app) ==
  [store |-> << app >>, ret |-> << app >>]

\* main.js:75-80
SaveAppHandler(s, app) ==
  LET pushed == Append(StoreGet(s), app)
  IN [store |-> pushed, ret |-> pushed]

\* mutant of DeleteAppHandler: splice(findIndex(id), 1), which drops the last
\* entry when no entry has the id
DeleteAppHandlerSplice(s, id) ==
  LET old == StoreGet(s)
      hits == {k \in 1..Len(old) : old[k].id = id}
      at == IF hits = {} THEN Len(old) ELSE CHOOSE k \in hits : \A h \in hits : k <= h
      kept == SubSeq(old, 1, at - 1) \o SubSeq(old, at + 1, Len(old))
  IN [store |-> kept, ret |-> kept]

\* mutant of DeleteAppHandler: the filter keeps the entries it should drop
DeleteAppHandlerInverted(s, id) ==
  LET kept == SelectSeq(StoreGet(s), LAMBDA a : a.id = id)
  IN [store |-> kept, ret |-> kept]

\* mutant of DeleteAppHandler: the list read before the removal is returned
DeleteAppHandlerStaleReturn(s, id) ==
  LET kept == SelectSeq(StoreGet(s), LAMBDA a : a.id # id)
  IN [store |-> kept, ret |-> StoreGet(s)]

\* main.js:82-87
DeleteAppHandler(s, id) ==
  LET kept == SelectSeq(StoreGet(s), LAMBDA a : a.id # id)
  IN [store |-> kept, ret |-> kept]

InFlight == Len(toMain) + Len(toRenderer)

Pending(ch) == Cardinality({i \in 1..Len(toMain) : toMain[i].ch = ch})

\* preload: safeIpcInvoke(channel, ...args)
Invoke(ch, arg) == toMain' = Append(toMain, [ch |-> ch, arg |-> arg])

\* App.vue:178  JSON.parse(localStorage.getItem('customCategories') || default)
LoadCategories(ls) == IF ls = NoItem THEN DefaultCategories ELSE ls

RECURSIVE CategoriesOf(_)
\* App.vue:200  apps.value.map(app => app.category)
CategoriesOf(seq) ==
  IF seq = << >> THEN << >> ELSE << Head(seq).category >> \o CategoriesOf(Tail(seq))

RECURSIVE Distinct(_)
\* new Set(iterable) read back with Array.from: first occurrences, in order
Distinct(seq) ==
  IF seq = << >> THEN << >>
  ELSE LET front == Distinct(SubSeq(seq, 1, Len(seq) - 1))
           x == seq[Len(seq)]
       IN IF \E k \in 1..Len(front) : front[k] = x THEN front ELSE Append(front, x)

\* App.vue:199-203  the computed categories for a list and the custom categories
CategoriesFor(list, custom) == << All >> \o Distinct(custom \o CategoriesOf(list))

\* App.vue:199-203
Categories == CategoriesFor(apps, customCategories)

\* App.vue:206-211
FilteredApps ==
  IF selectedCategory = All THEN apps
  ELSE SelectSeq(apps, LAMBDA a : a.category = selectedCategory)

\* mutant of AddCategoryList: a new name is put in front of the list
AddCategoryListUnshift(custom, name) ==
  IF name # "" /\ ~(\E k \in 1..Len(custom) : custom[k] = name)
    THEN << name >> \o custom
    ELSE custom

\* mutant of AddCategoryList: the includes test is left out
AddCategoryListNoCheck(custom, name) ==
  IF name # "" THEN Append(custom, name) ELSE custom

\* App.vue:220-221  customCategories.value after addCategory with the name typed
AddCategoryList(custom, name) ==
  IF name # "" /\ ~(\E k \in 1..Len(custom) : custom[k] = name)
    THEN Append(custom, name)
    ELSE custom

(***************************************************************************)
(* The main window (main.js:11-68).                                        *)
(***************************************************************************)
\* main.js:45  the value the closed handler leaves in mainWindow
NoWindow == "null"

\* main.js:50  (source text: "page failed to load: <code> <description>")
LoadFailedLine == "LOAD_FAILED"

\* main.js:13-24,34-41  the window createWindow constructs, and what it loads
NewWindow(n, dev) ==
  [id |-> ToString(n + 1),
   loads |-> IF dev THEN "http://localhost:3000" ELSE "dist/index.html",
   devTools |-> dev]

\* mutant of ActivateHandler: a window is created on every activate event
ActivateHandlerAlways(mw) == TRUE

\* main.js:61  whether the activate handler calls createWindow
ActivateHandler(mw) == mw = NoWindow

\* main.js:67  whether the window-all-closed handler calls app.quit
QuitsWhenAllClosed(plat) == plat # "darwin"

\* the application is running with its first window, on Windows
RunningWindow ==
  /\ appPhase = "ready"
  /\ mainWindow = "1"
  /\ windows = { NewWindow(0, FALSE) }
  /\ created = 1
  /\ isDev = FALSE
  /\ allClosed = FALSE

\* a script run by node alone: no Electron application, no window
NoElectron ==
  /\ appPhase = "starting"
  /\ mainWindow = Absent
  /\ windows = {}
  /\ created = 0
  /\ isDev = FALSE
  /\ allClosed = FALSE

(***************************************************************************)
(* Initial state: a fresh install; the renderer has mounted and loadApps   *)
(* (App.vue:386-389, 230-241) has issued its get-apps request.             *)
(***************************************************************************)
Init ==
  /\ store = Absent
  /\ now = 1
  /\ apps = << >>
  /\ error = ""
  /\ newApp = EmptyForm
  /\ toMain = << [ch |-> "get-apps", arg |-> ""] >>
  /\ toRenderer = << >>
  /\ platform = "win32"
  /\ edgeAvailable = TRUE
  /\ edgeLoaded = FALSE
  /\ pendingExec = EmptyBag
  /\ console = ""
  /\ launched = NoLaunch
  /\ customCategories = LoadCategories(NoItem)
  /\ newCategory = ""
  /\ showAddCategoryModal = FALSE
  /\ localStorage = NoItem
  /\ assigned = {}
  /\ urls = NoUrls
  /\ batch = NoBatch
  /\ selectedCategory = All
  /\ RunningWindow

(***************************************************************************)
(* The environment.                                                        *)
(***************************************************************************)
Tick ==
  /\ now < MaxTime
  /\ now' = now + 1
  /\ UNCHANGED <<store, apps, error, newApp, toMain, toRenderer, dispVars, catVars, assigned, sideVars>>

(***************************************************************************)
(* The user edits the form (App.vue template, lines 88-129).               *)
(***************************************************************************)
SetName ==
  \E v \in Names \cup {""} :
    /\ newApp' = [newApp EXCEPT !.name = v]
    /\ UNCHANGED <<store, now, apps, error, toMain, toRenderer, dispVars, catVars, assigned, sideVars>>

SetType ==
  \E v \in {"software", "browser"} :
    /\ newApp' = [newApp EXCEPT !.type = v]
    /\ UNCHANGED <<store, now, apps, error, toMain, toRenderer, dispVars, catVars, assigned, sideVars>>

\* App.vue:101-108  the browser select exists only while type = browser
SetBrowser ==
  \E v \in {"edge", "chrome"} :
    /\ newApp.type = "browser"
    /\ newApp' = [newApp EXCEPT !.browser = v]
    /\ UNCHANGED <<store, now, apps, error, toMain, toRenderer, dispVars, catVars, assigned, sideVars>>

\* App.vue:115-121  the one text input is bound to args while type = software
SetArgs ==
  \E v \in ArgTexts \cup {""} :
    /\ newApp.type = "software"
    /\ newApp' = [newApp EXCEPT !.args = v]
    /\ UNCHANGED <<store, now, apps, error, toMain, toRenderer, dispVars, catVars, assigned, sideVars>>

\* App.vue:115-121  and to url otherwise
SetUrl ==
  \E v \in UrlTexts \cup {""} :
    /\ newApp.type # "software"
    /\ newApp' = [newApp EXCEPT !.url = v]
    /\ UNCHANGED <<store, now, apps, error, toMain, toRenderer, dispVars, catVars, assigned, sideVars>>

\* App.vue:122-129
SetCategory ==
  \E v \in CategoryChoices :
    /\ newApp' = [newApp EXCEPT !.category = v]
    /\ UNCHANGED <<store, now, apps, error, toMain, toRenderer, dispVars, catVars, assigned, sideVars>>

\* App.vue:244-247  browsePath up to its first await
BrowsePath ==
  /\ newApp.type = "software"
  /\ InFlight < MaxFormInFlight
  /\ Invoke("open-file-dialog", "")
  /\ UNCHANGED <<store, now, apps, error, newApp, toRenderer, dispVars, catVars, assigned, sideVars>>

\* App.vue:362-376  a file is dropped on the drop zone, which is shown while no
\* target is listed (App.vue:37-43); the name is asked for when the field is empty
OnDrop ==
  \E p \in Paths :
    /\ FilteredApps = << >>
    /\ InFlight < MaxFormInFlight
    /\ newApp' = [newApp EXCEPT !.path = p, !.type = "software"]
    /\ IF newApp.name = ""
         THEN Invoke("get-basename", p)
         ELSE UNCHANGED toMain
    /\ UNCHANGED <<store, now, apps, error, toRenderer, dispVars, catVars, assigned, sideVars>>

\* App.vue:14-17,214-216  a tab of the category bar is clicked
SelectCategory ==
  \E k \in 1..Len(Categories) :
    /\ selectedCategory' = Categories[k]
    /\ UNCHANGED <<regVars, dispVars, catVars, assigned, batchVars, winVars>>

(***************************************************************************)
(* The add-category dialog (App.vue:27-32,140-165,219-227).                *)
(***************************************************************************)
\* App.vue:29
OpenAddCategory ==
  /\ ~showAddCategoryModal
  /\ showAddCategoryModal' = TRUE
  /\ UNCHANGED <<regVars, dispVars, customCategories, newCategory, localStorage, assigned, sideVars>>

\* App.vue:152,357-359  the cancel button or the Escape key; the text stays
CancelAddCategory ==
  /\ showAddCategoryModal
  /\ showAddCategoryModal' = FALSE
  /\ UNCHANGED <<regVars, dispVars, customCategories, newCategory, localStorage, assigned, sideVars>>

\* App.vue:144-149
SetNewCategoryFrom(texts) ==
  \E v \in texts \cup {""} :
    /\ showAddCategoryModal
    /\ newCategory' = v
    /\ UNCHANGED <<regVars, dispVars, customCategories, showAddCategoryModal, localStorage, assigned, sideVars>>

SetNewCategory == SetNewCategoryFrom(NewCategoryTexts)

SetNewCategoryMore == SetNewCategoryFrom(MoreCategoryTexts)

\* App.vue:219-227
AddCategory ==
  /\ showAddCategoryModal
  /\ IF AddCategoryList(customCategories, newCategory) # customCategories
       THEN /\ customCategories' = AddCategoryList(customCategories, newCategory)
            /\ localStorage' = customCategories'
            /\ newApp' = [newApp EXCEPT !.category = newCategory]
            /\ newCategory' = ""
            /\ showAddCategoryModal' = FALSE
       ELSE UNCHANGED <<newApp, catVars>>
  /\ UNCHANGED <<store, now, apps, error, toMain, toRenderer, dispVars, assigned, sideVars>>

(***************************************************************************)
(* The user's requests (App.vue).                                          *)
(***************************************************************************)
\* App.vue:268-297  addNewApp up to its await; maxApps and maxFlight bound the run
AddNewAppWithin(maxApps, maxFlight) ==
  /\ IF ValidationError(newApp) # ""
       THEN /\ error' = ValidationError(newApp)
            /\ UNCHANGED <<store, now, apps, newApp, toMain, toRenderer, dispVars, catVars>>
       ELSE /\ InFlight < maxFlight
            /\ Len(StoreGet(store)) + Pending("save-app") < maxApps
            /\ Invoke("save-app", AppToSave(newApp, now))
            /\ UNCHANGED <<store, now, apps, error, newApp, toRenderer, dispVars, catVars>>

AddNewApp == AddNewAppWithin(MaxApps, MaxInFlight) /\ UNCHANGED <<assigned, sideVars>>

AddNewAppForm == AddNewAppWithin(MaxFormApps, MaxFormInFlight) /\ UNCHANGED <<assigned, sideVars>>

AddNewAppFrame == AddNewAppWithin(MaxFrameApps, MaxFormInFlight) /\ UNCHANGED <<assigned, sideVars>>

\* addNewApp, with the id it gives to the target kept in the history
AddNewAppTracked ==
  /\ AddNewAppWithin(MaxApps, MaxInFlight)
  /\ assigned' = IF ValidationError(newApp) = ""
                   THEN assigned \cup {AppToSave(newApp, now).id}
                   ELSE assigned
  /\ UNCHANGED sideVars

\* App.vue:53-63,313-315  deleteApp up to its await; the button exists per
\* card, and the cards are those of filteredApps
DeleteAppWithin(maxFlight) ==
  \E i \in 1..Len(FilteredApps) :
    /\ InFlight < maxFlight
    /\ Invoke("delete-app", FilteredApps[i].id)
    /\ UNCHANGED <<store, now, apps, error, newApp, toRenderer, dispVars, catVars, assigned, sideVars>>

DeleteApp == DeleteAppWithin(MaxInFlight)

DeleteAppFrame == DeleteAppWithin(MaxFormInFlight)

(***************************************************************************)
(* The main process handles the oldest request (main.js:71-170).           *)
(***************************************************************************)
Reply(ch, val) ==
  toRenderer' = Append(toRenderer, [ch |-> ch, ok |-> TRUE, val |-> val])

HandleGetApps ==
  /\ toMain # << >> /\ Head(toMain).ch = "get-apps"
  /\ LET r == GetAppsHandler(store)
     IN /\ store' = r.store
        /\ Reply("get-apps", r.ret)
  /\ toMain' = Tail(toMain)
  /\ UNCHANGED <<now, apps, error, newApp, dispVars, catVars, assigned, sideVars>>

HandleSaveApp ==
  /\ toMain # << >> /\ Head(toMain).ch = "save-app"
  /\ LET r == SaveAppHandler(store, Head(toMain).arg)
     IN /\ store' = r.store
        /\ Reply("save-app", r.ret)
  /\ toMain' = Tail(toMain)
  /\ UNCHANGED <<now, apps, error, newApp, dispVars, catVars, assigned, sideVars>>

HandleDeleteApp ==
  /\ toMain # << >> /\ Head(toMain).ch = "delete-app"
  /\ LET r == DeleteAppHandler(store, Head(toMain).arg)
     IN /\ store' = r.store
        /\ Reply("delete-app", r.ret)
  /\ toMain' = Tail(toMain)
  /\ UNCHANGED <<now, apps, error, newApp, dispVars, catVars, assigned, sideVars>>

\* main.js:151-160  the native dialog: cancelled, or one chosen file
HandleOpenFileDialog ==
  /\ toMain # << >> /\ Head(toMain).ch = "open-file-dialog"
  /\ \E r \in {[canceled |-> TRUE, filePaths |-> << >>]}
              \cup {[canceled |-> FALSE, filePaths |-> <<p>>] : p \in Paths} :
       Reply("open-file-dialog", r)
  /\ toMain' = Tail(toMain)
  /\ UNCHANGED <<store, now, apps, error, newApp, dispVars, catVars, assigned, sideVars>>

\* main.js:168-170
HandleGetBasename ==
  /\ toMain # << >> /\ Head(toMain).ch = "get-basename"
  /\ Reply("get-basename", Basename(Head(toMain).arg))
  /\ toMain' = Tail(toMain)
  /\ UNCHANGED <<store, now, apps, error, newApp, dispVars, catVars, assigned, sideVars>>

\* main.js:72,76,78,83,85  store.get or store.set throws (the file cannot be
\* read or written): the async handler rejects, nothing is written, and the
\* invoke of the renderer rejects (start.js:52-55 logs and throws again)
StoreThrows ==
  /\ toMain # << >>
  /\ Head(toMain).ch \in {"get-apps", "save-app", "delete-app"}
  /\ toRenderer' = Append(toRenderer,
                           [ch |-> Head(toMain).ch, ok |-> FALSE, val |-> << >>])
  /\ toMain' = Tail(toMain)
  /\ UNCHANGED <<store, now, apps, error, newApp, dispVars, catVars, assigned, sideVars>>

(***************************************************************************)
(* The renderer resumes after an await with the oldest response.           *)
(***************************************************************************)
\* mutant of CatchMessage: an empty catch block
CatchMessageSwallowed(ch, old) == old

\* App.vue:237-240,306-309,316-319  the catch blocks: error.value after a
\* rejected invoke of channel ch (old is error.value before)
CatchMessage(ch, old) ==
  IF ch = "get-apps" THEN ErrLoad
  ELSE IF ch = "save-app" THEN ErrSave
  ELSE IF ch = "delete-app" THEN ErrDelete
  ELSE old

\* App.vue:236-240
ResumeLoadApps ==
  /\ toRenderer # << >> /\ Head(toRenderer).ch = "get-apps"
  /\ IF Head(toRenderer).ok
       THEN /\ apps' = Head(toRenderer).val
            /\ UNCHANGED error
       ELSE /\ error' = CatchMessage("get-apps", error)
            /\ UNCHANGED apps
  /\ toRenderer' = Tail(toRenderer)
  /\ UNCHANGED <<store, now, newApp, toMain, dispVars, catVars, assigned, sideVars>>

\* App.vue:297-309
ResumeAddNewApp ==
  /\ toRenderer # << >> /\ Head(toRenderer).ch = "save-app"
  /\ IF Head(toRenderer).ok
       THEN /\ apps' = Head(toRenderer).val
            /\ newApp' = ResetForm(newApp)
            /\ error' = ""
       ELSE /\ error' = CatchMessage("save-app", error)
            /\ UNCHANGED <<apps, newApp>>
  /\ toRenderer' = Tail(toRenderer)
  /\ UNCHANGED <<store, now, toMain, dispVars, catVars, assigned, sideVars>>

\* App.vue:315-319
ResumeDeleteApp ==
  /\ toRenderer # << >> /\ Head(toRenderer).ch = "delete-app"
  /\ IF Head(toRenderer).ok
       THEN /\ apps' = Head(toRenderer).val
            /\ UNCHANGED error
       ELSE /\ error' = CatchMessage("delete-app", error)
            /\ UNCHANGED apps
  /\ toRenderer' = Tail(toRenderer)
  /\ UNCHANGED <<store, now, newApp, toMain, dispVars, catVars, assigned, sideVars>>

\* App.vue:248-253  after the dialog: the path is taken, and a name is asked for
\* when the name field is empty
ResumeBrowsePath ==
  /\ toRenderer # << >> /\ Head(toRenderer).ch = "open-file-dialog"
  /\ LET result == Head(toRenderer).val
     IN IF ~result.canceled /\ Len(result.filePaths) > 0
          THEN /\ newApp' = [newApp EXCEPT !.path = result.filePaths[1]]
               /\ IF newApp.name = ""
                    THEN Invoke("get-basename", result.filePaths[1])
                    ELSE UNCHANGED toMain
          ELSE UNCHANGED <<newApp, toMain>>
  /\ toRenderer' = Tail(toRenderer)
  /\ UNCHANGED <<store, now, apps, error, dispVars, catVars, assigned, sideVars>>

\* App.vue:253  newApp.name = await getBasename(...)
ResumeGetBasename ==
  /\ toRenderer # << >> /\ Head(toRenderer).ch = "get-basename"
  /\ newApp' = [newApp EXCEPT !.name = Head(toRenderer).val]
  /\ toRenderer' = Tail(toRenderer)
  /\ UNCHANGED <<store, now, apps, error, toMain, dispVars, catVars, assigned, sideVars>>

(***************************************************************************)
(* The application is closed and started again: the store survives, the    *)
(* renderer starts from its setup state and loads the list.                *)
(***************************************************************************)
Restart ==
  /\ apps' = << >>
  /\ error' = ""
  /\ newApp' = EmptyForm
  /\ toMain' = << [ch |-> "get-apps", arg |-> ""] >>
  /\ toRenderer' = << >>
  /\ edgeLoaded' = FALSE
  /\ pendingExec' = EmptyBag
  /\ console' = ""
  /\ launched' = NoLaunch
  /\ customCategories' = LoadCategories(localStorage)
  /\ newCategory' = ""
  /\ showAddCategoryModal' = FALSE
  /\ selectedCategory' = All
  /\ UNCHANGED <<store, now, platform, edgeAvailable, localStorage, assigned, batchVars, winVars>>

(***************************************************************************)
(* The launch dispatcher (main.js:89-148 and the Edge helper module).      *)
(***************************************************************************)
\* paths that name an executable on this machine
ExistingPaths == {"/opt/tool.exe"}

\* the argument of a launch-app call that is null or undefined
NullTarget == [isNull |-> TRUE]

Target(type, path, args, browser, url) ==
  [id |-> "1", name |-> "A", type |-> type, category |-> Uncategorized,
   path |-> path, args |-> args, browser |-> browser, url |-> url]

\* the values launch-app is called with
DispatchTargets ==
  { Target("software", "/opt/tool.exe", "", "", ""),
    Target("software", "/opt/tool.exe", "-v \"a b\"", "", ""),
    Target("software", "/no/such", "", "", ""),
    Target("browser", "", "", "edge", "https://a.com"),
    Target("browser", "", "", "chrome", "https://a.com"),
    Target("browser", "", "", "firefox", "https://a.com"),
    Target("folder", "/opt", "", "", ""),
    NullTarget }

\* the targets the list shows in the specification of the dispatcher
ListedTargets ==
  << [Target("software", "/no/such", "", "edge", "") EXCEPT !.id = "1"],
     [Target("browser", "", "", "edge", "https://a.com") EXCEPT !.id = "2"] >>

\* mutant of SoftwareCommand: the args are wrapped in quotes as the path is
SoftwareCommandQuotedArgs(app) ==
  "\"" \o app.path \o "\"" \o (IF app.args # "" THEN " \"" \o app.args \o "\"" ELSE "")

\* main.js:95-98
SoftwareCommand(app) ==
  "\"" \o app.path \o "\"" \o (IF app.args # "" THEN " " \o app.args ELSE "")

\* mutant of EdgeCommand: on Windows the url is quoted as on the other platforms
EdgeCommandQuoted(url, plat) ==
  IF plat = "win32" THEN "start microsoft-edge:\"" \o url \o "\""
  ELSE IF plat = "darwin" THEN "open -a \"Microsoft Edge\" \"" \o url \o "\""
  ELSE "microsoft-edge \"" \o url \o "\""

\* open-edge-single (src/unnamed/part_001:11-20)
EdgeCommand(url, plat) ==
  IF plat = "win32" THEN "start microsoft-edge:" \o url
  ELSE IF plat = "darwin" THEN "open -a \"Microsoft Edge\" \"" \o url \o "\""
  ELSE "microsoft-edge \"" \o url \o "\""

\* main.js:119-126
ChromeCommand(url, plat) ==
  IF plat = "win32" THEN "start chrome \"" \o url \o "\""
  ELSE IF plat = "darwin" THEN "open -a \"Google Chrome\" \"" \o url \o "\""
  ELSE "google-chrome \"" \o url \o "\""

\* open-edge-single (src/unnamed/part_001:34): the url of the module-level call
UrlToOpen == "https://www.bing.com"

\* main.js:104,132 and part_001:26  (source text: "execution failed: <message>")
ExecErrorLine(cmd) == "EXEC_ERROR: Command failed: " \o cmd
\* main.js:138  (source text: "importing the browser launch module failed")
ImportErrorLine == "IMPORT_ERROR"
\* main.js:145  (source text: "error while launching the application")
LaunchErrorLine == "LAUNCH_ERROR"

\* The outcome of running a piece of the handler: it completes (and the handler
\* goes on), returns a value, or throws.  cmds are the commands handed to exec,
\* loaded the require cache afterwards, log the console.error line written.
Outcome(kind, val, cmds, loaded, log) ==
  [kind |-> kind, val |-> val, cmds |-> cmds, loaded |-> loaded, log |-> log]

\* main.js:111 with part_001:1-39: require runs the module body on its first use,
\* and the body calls openEdgeWithUrl(urlToOpen); a module that is not found or
\* whose body throws is not cached.  throwAt is the number of the exec call of
\* this launch-app call that throws synchronously (0: none does).
RequireEdge(plat, loaded, avail, throwAt) ==
  IF loaded THEN Outcome("done", TRUE, << >>, TRUE, "")
  ELSE IF ~avail THEN Outcome("throw", FALSE, << >>, FALSE, "")
  ELSE IF throwAt = 1 THEN Outcome("throw", FALSE, << >>, FALSE, "")
  ELSE Outcome("done", TRUE, << EdgeCommand(UrlToOpen, plat) >>, TRUE, "")

\* main.js:137-140  the catch of the browser branch
InnerCatch(o) ==
  IF o.kind = "throw"
    THEN Outcome("return", FALSE, o.cmds, o.loaded, ImportErrorLine)
    ELSE o

\* main.js:110-136  the try body of the browser branch
BrowserBody(app, plat, loaded, avail, throwAt) ==
  LET req == RequireEdge(plat, loaded, avail, throwAt)
      k == Len(req.cmds) + 1
  IN IF req.kind = "throw" THEN req
     ELSE IF app.browser = "edge"
       THEN IF throwAt = k
              THEN Outcome("throw", FALSE, req.cmds, req.loaded, "")
              ELSE Outcome("done", TRUE,
                           Append(req.cmds, EdgeCommand(app.url, plat)), req.loaded, "")
     ELSE IF app.browser = "chrome"
       THEN IF throwAt = k
              THEN Outcome("throw", FALSE, req.cmds, req.loaded, "")
              ELSE Outcome("done", TRUE,
                           Append(req.cmds, ChromeCommand(app.url, plat)), req.loaded, "")
     ELSE Outcome("done", TRUE, req.cmds, req.loaded, "")

\* main.js:91-143  the try body of the handler
LaunchBody(app, plat, loaded, avail, throwAt) ==
  IF app = NullTarget
    THEN Outcome("throw", FALSE, << >>, loaded, "")
  ELSE IF app.type = "software"
    THEN IF throwAt = 1
           THEN Outcome("throw", FALSE, << >>, loaded, "")
           ELSE Outcome("return", TRUE, << SoftwareCommand(app) >>, loaded, "")
  ELSE IF app.type = "browser"
    THEN LET o == InnerCatch(BrowserBody(app, plat, loaded, avail, throwAt))
         IN IF o.kind = "done" THEN [o EXCEPT !.kind = "return", !.val = TRUE] ELSE o
  ELSE Outcome("return", TRUE, << >>, loaded, "")

\* mutant of OuterCatch: what the try body throws leaves the handler
OuterCatchRethrow(o) == o

\* main.js:144-147  the catch of the handler
OuterCatch(o) ==
  IF o.kind = "throw"
    THEN Outcome("return", FALSE, o.cmds, o.loaded, LaunchErrorLine)
    ELSE o

\* main.js:89-148
LaunchAppHandler(app, plat, loaded, avail, throwAt) ==
  OuterCatch(LaunchBody(app, plat, loaded, avail, throwAt))

\* whether the command of a software target names a file that does not exist
Doomed(app) ==
  /\ app # NullTarget
  /\ app.type = "software"
  /\ app.path \notin ExistingPaths

RECURSIVE Execs(_, _)
\* the exec calls of one launch-app call, as a bag of outstanding callbacks
Execs(cmds, doomed) ==
  IF cmds = << >> THEN EmptyBag
  ELSE SetToBag({[cmd |-> Head(cmds), doomed |-> doomed]}) (+) Execs(Tail(cmds), doomed)

\* App.vue:326-335
AppToLaunch(app) ==
  [id |-> app.id,
   name |-> app.name,
   type |-> app.type,
   category |-> app.category,
   path |-> IF app.type = "software" THEN app.path ELSE "",
   args |-> IF app.type = "software" THEN app.args ELSE "",
   browser |-> IF app.type = "browser" THEN app.browser ELSE "",
   url |-> IF app.type = "browser" THEN app.url ELSE ""]

\* App.vue:323-337  launchApp up to its await; a card of the list is clicked
LaunchApp ==
  \E i \in 1..Len(FilteredApps) :
    /\ InFlight < MaxLaunchInFlight
    /\ Invoke("launch-app", AppToLaunch(FilteredApps[i]))
    /\ UNCHANGED <<store, now, apps, error, newApp, toRenderer, dispVars, catVars, assigned, sideVars>>

\* preload: electronAPI.launchApp(app) called with any value
InvokeLaunchApp ==
  \E t \in DispatchTargets :
    /\ InFlight < MaxLaunchInFlight
    /\ Invoke("launch-app", t)
    /\ UNCHANGED <<store, now, apps, error, newApp, toRenderer, dispVars, catVars, assigned, sideVars>>

\* main.js:89-148  a promise that rejects reaches the renderer as a failed invoke
HandleLaunchApp ==
  /\ toMain # << >> /\ Head(toMain).ch = "launch-app"
  /\ \E throwAt \in 0..2 :
       LET app == Head(toMain).arg
           o == LaunchAppHandler(app, platform, edgeLoaded, edgeAvailable, throwAt)
       IN /\ BagCardinality(pendingExec) + Len(o.cmds) <= MaxExec
          /\ toRenderer' = Append(toRenderer,
               [ch |-> "launch-app", ok |-> o.kind = "return", val |-> o.val])
          /\ edgeLoaded' = o.loaded
          /\ pendingExec' = pendingExec (+) Execs(o.cmds, Doomed(app))
          /\ console' = IF o.log # "" THEN o.log ELSE console
          /\ launched' = [handled |-> TRUE, app |-> app, ok |-> o.kind = "return",
                          ret |-> o.val, cmds |-> o.cmds, first |-> ~edgeLoaded]
  /\ toMain' = Tail(toMain)
  /\ UNCHANGED <<store, now, apps, error, newApp, platform, edgeAvailable, catVars, assigned, sideVars>>

\* main.js:102-107,130-135 and part_001:24-30  a callback of exec runs: the
\* command failed or not; a failure is written to the console
ExecCallback ==
  \E e \in BagToSet(pendingExec) :
    \E failed \in (IF e.doomed THEN {TRUE} ELSE BOOLEAN) :
      /\ console' = IF failed THEN ExecErrorLine(e.cmd) ELSE console
      /\ pendingExec' = pendingExec (-) SetToBag({e})
      /\ UNCHANGED <<regVars, platform, edgeAvailable, edgeLoaded, launched, catVars, assigned, sideVars>>

\* mutant of LaunchMessage: only a rejected call is reported
LaunchMessageOnReject(resp, old) ==
  IF ~resp.ok THEN ErrLaunch ELSE old

\* App.vue:338-343  the message after the answer of launch-app: the result is
\* falsy, or the call was rejected (ErrLaunch stands for both texts)
LaunchMessage(resp, old) ==
  IF ~resp.ok \/ ~resp.val THEN ErrLaunch ELSE old

\* App.vue:337-344
ResumeLaunchApp ==
  /\ toRenderer # << >> /\ Head(toRenderer).ch = "launch-app"
  /\ error' = LaunchMessage(Head(toRenderer), error)
  /\ toRenderer' = Tail(toRenderer)
  /\ launched' = NoLaunch
  /\ UNCHANGED <<store, now, apps, newApp, toMain,
                 platform, edgeAvailable, edgeLoaded, pendingExec, console, catVars, assigned, sideVars>>

(***************************************************************************)
(* The Edge batch launcher (research/open-vscode.js:34-94).                *)
(***************************************************************************)
\* an array of urls as an argument
UrlList(items) == [isArray |-> TRUE, items |-> items]

RECURSIVE SeqsUpTo(_, _)
\* the sequences over S of length n or less
SeqsUpTo(S, n) ==
  IF n = 0 THEN { << >> }
  ELSE LET shorter == SeqsUpTo(S, n - 1)
       IN shorter \cup { Append(q, x) : q \in shorter, x \in S }

\* the values openEdgeWithMultipleUrls is called with
BatchInputs ==
  { UrlList(q) : q \in SeqsUpTo(BatchUrlTexts, MaxUrls) }
    \cup { UrlList(UrlsToOpen), NoUrls }

RECURSIVE Join(_, _)
\* Array.prototype.join
Join(items, sep) ==
  IF items = << >> THEN ""
  ELSE IF Len(items) = 1 THEN items[1]
  ELSE items[1] \o sep \o Join(Tail(items), sep)

RECURSIVE DarwinChain(_, _, _)
\* open-vscode.js:64-66  the loop over urls[1..]
DarwinChain(command, edgePath, rest) ==
  IF rest = << >> THEN command
  ELSE DarwinChain(command \o " && " \o edgePath \o " \"" \o Head(rest) \o "\"",
                   edgePath, Tail(rest))

\* mutant of BatchCommand: only the first url is opened
BatchCommandFirstOnly(items, plat) ==
  IF plat = "win32" THEN "start microsoft-edge:" \o "\"" \o items[1] \o "\""
  ELSE IF plat = "darwin" THEN "open -a \"Microsoft Edge\"" \o " \"" \o items[1] \o "\""
  ELSE "microsoft-edge" \o " \"" \o items[1] \o "\""

\* open-vscode.js:50-71
BatchCommand(items, plat) ==
  IF plat = "win32"
    THEN "start microsoft-edge:" \o "\"" \o Join(items, "\" \"") \o "\""
  ELSE IF plat = "darwin"
    THEN DarwinChain("open -a \"Microsoft Edge\"" \o " \"" \o items[1] \o "\"",
                     "open -a \"Microsoft Edge\"", Tail(items))
  ELSE "microsoft-edge" \o " \"" \o Join(items, "\" \"") \o "\""

\* mutant of OpenEdgeWithMultipleUrls: no check of the argument; a value
\* without urls is launched as the empty list
OpenEdgeWithMultipleUrlsUnguarded(u, plat) ==
  [called |-> TRUE,
   cmds |-> << IF plat = "darwin" THEN "open -a \"Microsoft Edge\" \"undefined\""
               ELSE BatchCommand(<< "" >>, plat) >>,
   log |-> ""]

\* open-vscode.js:41-84  the call up to its return: the commands handed to exec
\* and the console.error line written
OpenEdgeWithMultipleUrls(u, plat) ==
  IF ~u.isArray \/ Len(u.items) = 0
    THEN [called |-> TRUE, cmds |-> << >>, log |-> ErrInvalidUrls]
    ELSE [called |-> TRUE, cmds |-> << BatchCommand(u.items, plat) >>, log |-> ""]

\* open-vscode.js:92 and any other caller: the function is called with urls
CallOpenEdgeWithMultipleUrls ==
  /\ ~batch.called
  /\ batch' = OpenEdgeWithMultipleUrls(urls, platform)
  /\ pendingExec' = pendingExec (+) Execs(batch'.cmds, FALSE)
  /\ console' = IF batch'.log # "" THEN batch'.log ELSE console
  /\ UNCHANGED <<regVars, platform, edgeAvailable, edgeLoaded, launched, catVars, assigned, urls, selectedCategory, winVars>>

\* open-vscode.js:78  (source text: "stderr: <text>")
StderrLine == "STDERR"

\* open-vscode.js:73-83  the callback of exec: an error, output on stderr, or
\* success (which writes to console.log only)
BatchExecCallback ==
  \E e \in BagToSet(pendingExec) :
    \E outcome \in {"error", "stderr", "ok"} :
      /\ console' = IF outcome = "error" THEN ExecErrorLine(e.cmd)
                    ELSE IF outcome = "stderr" THEN StderrLine
                    ELSE console
      /\ pendingExec' = pendingExec (-) SetToBag({e})
      /\ UNCHANGED <<regVars, platform, edgeAvailable, edgeLoaded, launched, catVars, assigned, sideVars>>

(***************************************************************************)
(* The events of the application and of its window (main.js:44-68).        *)
(***************************************************************************)
\* main.js:55-63  whenReady resolves: the window is created, and the activate
\* handler is registered
Ready ==
  /\ appPhase = "starting"
  /\ appPhase' = "ready"
  /\ windows' = windows \cup { NewWindow(created, isDev) }
  /\ mainWindow' = NewWindow(created, isDev).id
  /\ created' = created + 1
  /\ UNCHANGED <<regVars, dispVars, catVars, assigned, batchVars, selectedCategory, isDev, allClosed>>

\* main.js:44-46  a window is closed by the user: it exists no longer, and its
\* closed handler resets the reference; Electron emits window-all-closed when
\* it was the last one
WindowClosed ==
  \E w \in windows :
    /\ appPhase = "ready"
    /\ windows' = windows \ {w}
    /\ mainWindow' = NoWindow
    /\ allClosed' = (windows' = {})
    /\ UNCHANGED <<regVars, dispVars, catVars, assigned, batchVars, selectedCategory,
                   appPhase, created, isDev>>

\* main.js:66-68
WindowAllClosed ==
  /\ allClosed
  /\ allClosed' = FALSE
  /\ appPhase' = IF QuitsWhenAllClosed(platform) THEN "quit" ELSE appPhase
  /\ windows' = IF QuitsWhenAllClosed(platform) THEN {} ELSE windows
  /\ UNCHANGED <<regVars, dispVars, catVars, assigned, batchVars, selectedCategory,
                 mainWindow, created, isDev>>

\* main.js:58-62  an activate event, once the handler is registered
Activate ==
  /\ appPhase = "ready"
  /\ IF ActivateHandler(mainWindow)
       THEN /\ created < MaxWindows
            /\ windows' = windows \cup { NewWindow(created, isDev) }
            /\ mainWindow' = NewWindow(created, isDev).id
            /\ created' = created + 1
       ELSE UNCHANGED <<windows, mainWindow, created>>
  /\ UNCHANGED <<regVars, dispVars, catVars, assigned, batchVars, selectedCategory,
                 appPhase, isDev, allClosed>>

\* main.js:49-51  the page of a window fails to load
DidFailLoad ==
  /\ windows # {}
  /\ console' = LoadFailedLine
  /\ UNCHANGED <<regVars, platform, edgeAvailable, edgeLoaded, pendingExec, launched,
                 catVars, assigned, sideVars>>

(***************************************************************************)
(* Spec: the registry.  The user fills the form for a browser target, adds *)
(* and deletes, and restarts the application, while the clock advances.    *)
(***************************************************************************)
Next ==
  \/ Tick
  \/ SetName
  \/ SetType
  \/ SetUrl
  \/ AddNewApp
  \/ DeleteApp
  \/ HandleGetApps
  \/ HandleSaveApp
  \/ HandleDeleteApp
  \/ ResumeLoadApps
  \/ ResumeAddNewApp
  \/ ResumeDeleteApp
  \/ Restart

Spec == Init /\ [][Next]_vars

(***************************************************************************)
(* SpecForm: the add form.  Every field is edited, files are picked, and   *)
(* the form is submitted; the clock stands still.                          *)
(***************************************************************************)
NextForm ==
  \/ SetName
  \/ SetType
  \/ SetBrowser
  \/ SetArgs
  \/ SetUrl
  \/ SetCategory
  \/ BrowsePath
  \/ AddNewAppForm
  \/ HandleGetApps
  \/ HandleSaveApp
  \/ HandleOpenFileDialog
  \/ HandleGetBasename
  \/ ResumeLoadApps
  \/ ResumeAddNewApp
  \/ ResumeBrowsePath
  \/ ResumeGetBasename

SpecForm == Init /\ [][NextForm]_vars

(***************************************************************************)
(* SpecValid: the required fields.  As SpecForm, with the fields that no   *)
(* check of addNewApp reads (args, browser, category) left as they start.  *)
(***************************************************************************)
NextValid ==
  \/ SetName
  \/ SetType
  \/ SetUrl
  \/ BrowsePath
  \/ AddNewAppForm
  \/ HandleGetApps
  \/ HandleSaveApp
  \/ HandleOpenFileDialog
  \/ HandleGetBasename
  \/ ResumeLoadApps
  \/ ResumeAddNewApp
  \/ ResumeBrowsePath
  \/ ResumeGetBasename

SpecValid == Init /\ [][NextValid]_vars

(***************************************************************************)
(* SpecIO: the registry with a store that may fail.  As Spec, with the     *)
(* clock standing still and without restarts, and every get-apps, save-app *)
(* and delete-app request may find the store unreadable or unwritable.     *)
(***************************************************************************)
NextIO ==
  \/ SetName
  \/ SetType
  \/ SetUrl
  \/ AddNewApp
  \/ DeleteApp
  \/ HandleGetApps
  \/ HandleSaveApp
  \/ HandleDeleteApp
  \/ StoreThrows
  \/ ResumeLoadApps
  \/ ResumeAddNewApp
  \/ ResumeDeleteApp

SpecIO == Init /\ [][NextIO]_vars

(***************************************************************************)
(* SpecCat: the categories.  Categories are declared in the dialog, targets *)
(* are added with the category the form holds, and the application is      *)
(* restarted, which reloads the declared categories from localStorage.     *)
(***************************************************************************)
NextCat ==
  \/ OpenAddCategory
  \/ CancelAddCategory
  \/ SetNewCategory
  \/ AddCategory
  \/ SetName
  \/ SetType
  \/ SetUrl
  \/ SetCategory
  \/ AddNewAppForm
  \/ HandleGetApps
  \/ HandleSaveApp
  \/ ResumeLoadApps
  \/ ResumeAddNewApp
  \/ Restart

SpecCat == Init /\ [][NextCat]_vars

(***************************************************************************)
(* SpecFrame: every operation of the boundary.  The registry holds a       *)
(* software target of an earlier session; the list is loaded, a software   *)
(* target is added from a picked file with the derived name, targets are   *)
(* launched and deleted, and a category is declared in the dialog that the *)
(* user has opened.                                                        *)
(***************************************************************************)
\* the collection an earlier session left: one software target, added at time 0
EarlierTargets ==
  << AppToSave([EmptyForm EXCEPT !.name = "A", !.path = "/opt/tool.exe"], 0) >>

InitFrame ==
  /\ store = EarlierTargets
  /\ now = 1
  /\ apps = << >>
  /\ error = ""
  /\ newApp = EmptyForm
  /\ toMain = << [ch |-> "get-apps", arg |-> ""] >>
  /\ toRenderer = << >>
  /\ platform = "win32"
  /\ edgeAvailable = TRUE
  /\ edgeLoaded = FALSE
  /\ pendingExec = EmptyBag
  /\ console = ""
  /\ launched = NoLaunch
  /\ customCategories = LoadCategories(NoItem)
  /\ newCategory = ""
  /\ showAddCategoryModal = TRUE
  /\ localStorage = NoItem
  /\ assigned = {}
  /\ urls = NoUrls
  /\ batch = NoBatch
  /\ selectedCategory = All
  /\ RunningWindow

NextFrame ==
  \/ BrowsePath
  \/ AddNewAppFrame
  \/ DeleteAppFrame
  \/ LaunchApp
  \/ SetNewCategory
  \/ AddCategory
  \/ HandleGetApps
  \/ HandleSaveApp
  \/ HandleDeleteApp
  \/ HandleOpenFileDialog
  \/ HandleGetBasename
  \/ HandleLaunchApp
  \/ ExecCallback
  \/ ResumeLoadApps
  \/ ResumeAddNewApp
  \/ ResumeDeleteApp
  \/ ResumeBrowsePath
  \/ ResumeGetBasename
  \/ ResumeLaunchApp

SpecFrame == InitFrame /\ [][NextFrame]_vars

(***************************************************************************)
(* SpecIds: the registry as in Spec, with the history of the ids that      *)
(* addNewApp has given to targets.                                         *)
(***************************************************************************)
NextIds ==
  \/ Tick
  \/ SetName
  \/ SetType
  \/ SetUrl
  \/ AddNewAppTracked
  \/ DeleteApp
  \/ HandleGetApps
  \/ HandleSaveApp
  \/ HandleDeleteApp
  \/ ResumeLoadApps
  \/ ResumeAddNewApp
  \/ ResumeDeleteApp
  \/ Restart

SpecIds == Init /\ [][NextIds]_vars

(***************************************************************************)
(* SpecDispatch: the dispatcher.  The registry holds two targets and the   *)
(* list shows them; launch-app is called from the list and with any value, *)
(* on every platform, with the Edge module present or missing.             *)
(***************************************************************************)
InitDispatch ==
  /\ store = ListedTargets
  /\ now = 1
  /\ apps = ListedTargets
  /\ error = ""
  /\ newApp = EmptyForm
  /\ toMain = << >>
  /\ toRenderer = << >>
  /\ platform \in Platforms
  /\ edgeAvailable \in BOOLEAN
  /\ edgeLoaded = FALSE
  /\ pendingExec = EmptyBag
  /\ console = ""
  /\ launched = NoLaunch
  /\ customCategories = LoadCategories(NoItem)
  /\ newCategory = ""
  /\ showAddCategoryModal = FALSE
  /\ localStorage = NoItem
  /\ assigned = {}
  /\ urls = NoUrls
  /\ batch = NoBatch
  /\ selectedCategory = All
  /\ RunningWindow

NextDispatch ==
  \/ LaunchApp
  \/ InvokeLaunchApp
  \/ HandleLaunchApp
  \/ ExecCallback
  \/ ResumeLaunchApp

SpecDispatch == InitDispatch /\ [][NextDispatch]_vars

(***************************************************************************)
(* SpecDefaults: the optional fields of a software target.  The name is    *)
(* typed or derived from the picked file, args are typed or left empty, a  *)
(* category is chosen or not, and the form is submitted.                   *)
(***************************************************************************)
NextDefaults ==
  \/ SetName
  \/ SetArgs
  \/ SetCategory
  \/ BrowsePath
  \/ AddNewAppForm
  \/ HandleGetApps
  \/ HandleSaveApp
  \/ HandleOpenFileDialog
  \/ HandleGetBasename
  \/ ResumeLoadApps
  \/ ResumeAddNewApp
  \/ ResumeBrowsePath
  \/ ResumeGetBasename

SpecDefaults == Init /\ [][NextDefaults]_vars

(***************************************************************************)
(* SpecName: the name field.  The user types a name, picks a file with the *)
(* dialog or drops one, and submits the form, while the requests of the    *)
(* renderer are answered.                                                  *)
(***************************************************************************)
NextName ==
  \/ SetName
  \/ BrowsePath
  \/ OnDrop
  \/ AddNewAppForm
  \/ HandleGetApps
  \/ HandleSaveApp
  \/ HandleOpenFileDialog
  \/ HandleGetBasename
  \/ ResumeLoadApps
  \/ ResumeAddNewApp
  \/ ResumeBrowsePath
  \/ ResumeGetBasename

SpecName == Init /\ [][NextName]_vars

(***************************************************************************)
(* SpecWindow: the application starts on any platform, packaged or not;    *)
(* it becomes ready, its window is closed, it is activated.                *)
(***************************************************************************)
InitWindow ==
  /\ store = Absent
  /\ now = 1
  /\ apps = << >>
  /\ error = ""
  /\ newApp = EmptyForm
  /\ toMain = << >>
  /\ toRenderer = << >>
  /\ platform \in Platforms \cup OtherPlatforms
  /\ edgeAvailable = TRUE
  /\ edgeLoaded = FALSE
  /\ pendingExec = EmptyBag
  /\ console = ""
  /\ launched = NoLaunch
  /\ customCategories = LoadCategories(NoItem)
  /\ newCategory = ""
  /\ showAddCategoryModal = FALSE
  /\ localStorage = NoItem
  /\ assigned = {}
  /\ urls = NoUrls
  /\ batch = NoBatch
  /\ selectedCategory = All
  /\ appPhase = "starting"
  /\ mainWindow = Absent
  /\ windows = {}
  /\ created = 0
  /\ isDev \in BOOLEAN
  /\ allClosed = FALSE

NextWindow ==
  \/ Ready
  \/ WindowClosed
  \/ WindowAllClosed
  \/ Activate
  \/ DidFailLoad

SpecWindow == InitWindow /\ [][NextWindow]_vars

(***************************************************************************)
(* SpecCatList: the category list while the application is used.  The      *)
(* registry holds a target of an earlier session; categories are declared  *)
(* and selected, a second target is added, targets are deleted, and the    *)
(* application is started again.                                           *)
(***************************************************************************)
\* as InitFrame, and the user has filled the form for a second software target
InitCatList ==
  /\ store = EarlierTargets
  /\ now = 1
  /\ apps = << >>
  /\ error = ""
  /\ newApp = [EmptyForm EXCEPT !.name = "B", !.path = "/opt/tool.exe"]
  /\ toMain = << [ch |-> "get-apps", arg |-> ""] >>
  /\ toRenderer = << >>
  /\ platform = "win32"
  /\ edgeAvailable = TRUE
  /\ edgeLoaded = FALSE
  /\ pendingExec = EmptyBag
  /\ console = ""
  /\ launched = NoLaunch
  /\ customCategories = LoadCategories(NoItem)
  /\ newCategory = ""
  /\ showAddCategoryModal = TRUE
  /\ localStorage = NoItem
  /\ assigned = {}
  /\ urls = NoUrls
  /\ batch = NoBatch
  /\ selectedCategory = All
  /\ RunningWindow

NextCatList ==
  \/ OpenAddCategory
  \/ SetNewCategoryMore
  \/ AddCategory
  \/ SelectCategory
  \/ AddNewAppForm
  \/ DeleteAppFrame
  \/ HandleGetApps
  \/ HandleSaveApp
  \/ HandleDeleteApp
  \/ ResumeLoadApps
  \/ ResumeAddNewApp
  \/ ResumeDeleteApp
  \/ Restart

SpecCatList == InitCatList /\ [][NextCatList]_vars

(***************************************************************************)
(* SpecBrowser: the list shows an Edge, a Chrome and a Firefox target, and *)
(* the cards are clicked, on every platform, with the Edge module present  *)
(* or missing.                                                             *)
(***************************************************************************)
BrowserTargets ==
  << [Target("browser", "", "", "edge", "https://a.com") EXCEPT !.id = "1"],
     [Target("browser", "", "", "chrome", "https://a.com") EXCEPT !.id = "2"],
     [Target("browser", "", "", "firefox", "https://a.com") EXCEPT !.id = "3"] >>

InitBrowser ==
  /\ store = BrowserTargets
  /\ now = 1
  /\ apps = BrowserTargets
  /\ error = ""
  /\ newApp = EmptyForm
  /\ toMain = << >>
  /\ toRenderer = << >>
  /\ platform \in Platforms \cup OtherPlatforms
  /\ edgeAvailable \in BOOLEAN
  /\ edgeLoaded = FALSE
  /\ pendingExec = EmptyBag
  /\ console = ""
  /\ launched = NoLaunch
  /\ customCategories = LoadCategories(NoItem)
  /\ newCategory = ""
  /\ showAddCategoryModal = FALSE
  /\ localStorage = NoItem
  /\ assigned = {}
  /\ urls = NoUrls
  /\ batch = NoBatch
  /\ selectedCategory = All
  /\ RunningWindow

NextBrowser ==
  \/ LaunchApp
  \/ HandleLaunchApp
  \/ ExecCallback
  \/ ResumeLaunchApp

SpecBrowser == InitBrowser /\ [][NextBrowser]_vars

(***************************************************************************)
(* SpecBatch: the batch launcher is called once, with any argument, on any *)
(* platform, and the callback of its exec runs.                            *)
(***************************************************************************)
InitBatch ==
  /\ store = Absent
  /\ now = 1
  /\ apps = << >>
  /\ error = ""
  /\ newApp = EmptyForm
  /\ toMain = << >>
  /\ toRenderer = << >>
  /\ platform \in Platforms
  /\ edgeAvailable = TRUE
  /\ edgeLoaded = FALSE
  /\ pendingExec = EmptyBag
  /\ console = ""
  /\ launched = NoLaunch
  /\ customCategories = LoadCategories(NoItem)
  /\ newCategory = ""
  /\ showAddCategoryModal = FALSE
  /\ localStorage = NoItem
  /\ assigned = {}
  /\ urls \in BatchInputs
  /\ batch = NoBatch
  /\ selectedCategory = All
  /\ NoElectron

NextBatch ==
  \/ CallOpenEdgeWithMultipleUrls
  \/ BatchExecCallback

SpecBatch == InitBatch /\ [][NextBatch]_vars

(***************************************************************************)
(* Properties.  A step is told from its effect on the two IPC queues.      *)
(***************************************************************************)
\* the main process handles the oldest request, which is for channel ch
Handled(ch) ==
  /\ toMain # << >>
  /\ Head(toMain).ch = ch
  /\ toMain' = Tail(toMain)
  /\ Len(toRenderer') = Len(toRenderer) + 1

\* the response that step sends
Response == toRenderer'[Len(toRenderer')]

\* the renderer sends a save-app request
SaveSent ==
  /\ Len(toMain') = Len(toMain) + 1
  /\ SubSeq(toMain', 1, Len(toMain)) = toMain
  /\ toMain'[Len(toMain')].ch = "save-app"

Persisted == StoreGet(store)

IdsOf(seq) == {seq[k].id : k \in 1..Len(seq)}

\* after is before with some entries left out, the others in their order
IsSubsequence(after, before) ==
  \E f \in [1..Len(after) -> 1..Len(before)] :
    /\ \A a, b \in 1..Len(after) : a < b => f[a] < f[b]
    /\ \A k \in 1..Len(after) : after[k] = before[f[k]]

\* after is before without the entries whose id is id, the others in their order
IsWithout(after, before, id) ==
  \E f \in [1..Len(after) -> 1..Len(before)] :
    /\ \A a, b \in 1..Len(after) : a < b => f[a] < f[b]
    /\ \A k \in 1..Len(after) : after[k] = before[f[k]]
    /\ \A i \in 1..Len(before) :
         before[i].id # id <=> \E k \in 1..Len(after) : f[k] = i

\* the required fields that a form leaves empty
MissingFields(f) ==
  (IF f.name = "" THEN {"name"} ELSE {})
    \cup (IF f.type = "software" /\ f.path = "" THEN {"path"} ELSE {})
    \cup (IF f.type = "browser" /\ f.url = "" THEN {"url"} ELSE {})

\* the field a validation message names
FieldNamedBy(msg) ==
  IF msg = ErrName THEN "name"
  ELSE IF msg = ErrPath THEN "path"
  ELSE IF msg = ErrUrl THEN "url"
  ELSE "none"

\* C1: while the form lacks a required field of its type, no step sends a
\* save-app request, and a step that raises a validation message raises one
\* that names a field the form lacks and changes nothing else: not the
\* persisted collection, not the list the renderer holds, not a queue.
C1_InvalidAddRejected ==
  [][ MissingFields(newApp) # {} =>
        /\ ~SaveSent
        /\ (error' # error /\ error' \in {ErrName, ErrPath, ErrUrl}) =>
             /\ FieldNamedBy(error') \in MissingFields(newApp)
             /\ UNCHANGED <<store, apps, newApp, toMain, toRenderer>> ]_vars

\* C1 witness: an add of a browser target without url was rejected while the
\* registry held a target; the list and the collection are as they were.
C1_Witness ==
  /\ error = ErrUrl
  /\ newApp.type = "browser" /\ newApp.url = "" /\ newApp.name # ""
  /\ Len(Persisted) >= 1
  /\ apps = Persisted
  /\ toMain = << >> /\ toRenderer = << >>

\* C2: no two targets of the persisted collection have the same id.
C2_UniqueIds ==
  \A i, j \in 1..Len(Persisted) : i # j => Persisted[i].id # Persisted[j].id

\* C7: a delete-app request whose id no persisted target has is answered (not
\* rejected) with the collection as it was, and the persisted collection stays
\* the same sequence.
C7_RemoveAbsentIsNoOp ==
  [][ (Handled("delete-app") /\ Head(toMain).arg \notin IdsOf(Persisted)) =>
        /\ Response.ok
        /\ Response.val = Persisted
        /\ StoreGet(store') = Persisted ]_vars

\* C7 witness: two delete requests were answered one after the other with the
\* same non-empty collection, which is the persisted one: the second removed
\* nothing.
C7_Witness ==
  /\ Len(toRenderer) = 2
  /\ toRenderer[1].ch = "delete-app" /\ toRenderer[2].ch = "delete-app"
  /\ toRenderer[2].val = toRenderer[1].val
  /\ toRenderer[2].val # << >>
  /\ Persisted = toRenderer[2].val
  /\ Len(apps) > Len(Persisted)

\* C8: a delete-app request whose id a persisted target has is answered with the
\* collection without the entries of that id, every other entry unchanged and in
\* its order, and that collection is the persisted one.
C8_RemovePresent ==
  [][ (Handled("delete-app") /\ Head(toMain).arg \in IdsOf(Persisted)) =>
        /\ Response.ok
        /\ store' = Response.val
        /\ Head(toMain).arg \notin IdsOf(Response.val)
        /\ IsWithout(Response.val, Persisted, Head(toMain).arg) ]_vars

\* C8 witness: the list showed three targets, the middle one was deleted, and
\* the answer and the persisted collection hold the first and the third.
C8_Witness ==
  /\ toMain = << >>
  /\ Len(toRenderer) = 1 /\ toRenderer[1].ch = "delete-app"
  /\ Len(apps) = 3
  /\ apps[2].id \notin {apps[1].id, apps[3].id}
  /\ toRenderer[1].val = << apps[1], apps[3] >>
  /\ store = toRenderer[1].val

\* C9: a save-app request appends its target at the end of the persisted
\* collection and is answered with the whole collection; a get-apps request is
\* answered with the persisted collection (the empty sequence when nothing was
\* ever persisted) and changes nothing; a delete leaves the others in their
\* order; and no other step changes the persisted collection.
C9_AppendAndList ==
  [][ /\ Handled("save-app") =>
           /\ Response.ok
           /\ StoreGet(store') = Append(Persisted, Head(toMain).arg)
           /\ Response.val = StoreGet(store')
      /\ Handled("get-apps") =>
           /\ Response.ok
           /\ Response.val = (IF store = Absent THEN << >> ELSE store)
           /\ store' = store
      /\ Handled("delete-app") => IsSubsequence(StoreGet(store'), Persisted)
      /\ store' # store => (Handled("save-app") \/ Handled("delete-app")) ]_vars

\* C9 witness: a third target, added after a delete, was appended behind the two
\* survivors, and the answer is the persisted collection.
C9_Witness ==
  /\ Len(toRenderer) = 1 /\ toRenderer[1].ch = "save-app"
  /\ Len(Persisted) = 3
  /\ toRenderer[1].val = Persisted
  /\ SubSeq(Persisted, 1, 2) = apps
  /\ Persisted[1].id # Persisted[3].id

\* C10: a save-app or delete-app request sets the persisted collection, and its
\* answer, the persisted collection and the answer of a get-apps request handled
\* next are the same sequence; every other step, a restart included, leaves the
\* persisted value as it is.
C10_PersistedOnEveryMutation ==
  [][ /\ (Handled("save-app") \/ Handled("delete-app")) =>
           /\ store' # Absent
           /\ Response.val = store'
           /\ GetAppsHandler(store').ret = Response.val
           /\ GetAppsHandler(store').store = store'
      /\ ~(Handled("save-app") \/ Handled("delete-app")) => store' = store ]_vars

\* C10 witness: after a restart the renderer starts with an empty list and the
\* get-apps answer on its way is the persisted, non-empty collection.
C10_Witness ==
  /\ apps = << >>
  /\ Len(toRenderer) = 1 /\ toRenderer[1].ch = "get-apps"
  /\ Len(Persisted) >= 2
  /\ toRenderer[1].val = Persisted

\* the commands launch-app builds for a target of a known kind
CommandsOf(app, plat) ==
  IF app = NullTarget THEN {}
  ELSE IF app.type = "software" THEN {SoftwareCommand(app)}
  ELSE IF app.type = "browser" /\ app.browser = "edge" THEN {EdgeCommand(app.url, plat)}
  ELSE IF app.type = "browser" /\ app.browser = "chrome" THEN {ChromeCommand(app.url, plat)}
  ELSE {}

\* C3: a launch-app call for a software target whose path does not exist is
\* answered false and leaves the persisted collection alone, and the callback of
\* its exec writes the error to the console.
C3_MissingPathReturnsFalse ==
  [][ /\ (Handled("launch-app") /\ Doomed(Head(toMain).arg)) =>
           /\ Response.ok
           /\ Response.val = FALSE
           /\ store' = store
      /\ \A e \in BagToSet(pendingExec) :
           (e.doomed /\ pendingExec' = pendingExec (-) SetToBag({e})) =>
             console' = ExecErrorLine(e.cmd) ]_vars

\* C4: a launch-app call answered true has handed a command built from its
\* target to exec.
C4_TrueOnlyAfterExec ==
  [][ (Handled("launch-app") /\ Response.ok /\ Response.val = TRUE) =>
        /\ launched'.cmds # << >>
        /\ launched'.cmds[Len(launched'.cmds)] \in CommandsOf(Head(toMain).arg, platform)
     ]_vars

\* C5: a launch-app call answered true for a software, Edge or Chrome target has
\* handed exactly one command to exec, the command of that target on this
\* platform, whatever calls came before.
C5_Stateless ==
  [][ (/\ Handled("launch-app")
       /\ Response.ok /\ Response.val = TRUE
       /\ CommandsOf(Head(toMain).arg, platform) # {}) =>
        /\ Len(launched'.cmds) = 1
        /\ launched'.cmds[1] \in CommandsOf(Head(toMain).arg, platform) ]_vars

\* C6: every launch-app call is answered, never rejected, and its answer is a
\* boolean, whatever the target and whatever throws inside the handler.
C6_NeverRejects ==
  [][ Handled("launch-app") =>
        /\ Response.ok
        /\ Response.val \in BOOLEAN
        /\ launched'.ok ]_vars

\* C6 witness: a call whose argument was null threw inside the handler, the
\* handler logged it, and the answer false is on its way to the renderer.
C6_Witness ==
  /\ launched.handled
  /\ launched.app = NullTarget
  /\ console = LaunchErrorLine
  /\ Len(toRenderer) = 1
  /\ toRenderer[1].ok /\ toRenderer[1].val = FALSE

\* what one request does to a collection when it is applied alone
ApplyRequest(seq, r) ==
  IF r.ch = "save-app" THEN Append(seq, r.arg)
  ELSE IF r.ch = "delete-app" THEN SelectSeq(seq, LAMBDA a : a.id # r.arg)
  ELSE seq

RECURSIVE ApplyAll(_, _)
\* the requests of a queue applied one at a time, oldest first
ApplyAll(seq, queue) ==
  IF queue = << >> THEN seq
  ELSE ApplyAll(ApplyRequest(seq, Head(queue)), Tail(queue))

\* the renderer sends a request: the queue grows at its end
Sent ==
  /\ Len(toMain') = Len(toMain) + 1
  /\ SubSeq(toMain', 1, Len(toMain)) = toMain

\* C11: the collection that results from applying the requests in flight one at
\* a time in the order they were issued is what each step works towards: a
\* request that is sent extends that result by its own effect alone, a request
\* that is handled is the oldest one, leaves that result as it is, and is
\* answered with the collection in which exactly the requests issued before it
\* and itself are applied; so when no request is left the persisted collection
\* is that result.
C11_SerialOrder ==
  [][ /\ Sent => ApplyAll(Persisted, toMain')
                   = ApplyRequest(ApplyAll(Persisted, toMain), toMain'[Len(toMain')])
      /\ \A ch \in {"get-apps", "save-app", "delete-app"} :
           Handled(ch) =>
             /\ StoreGet(store') = ApplyRequest(Persisted, Head(toMain))
             /\ Response.val = StoreGet(store')
             /\ ApplyAll(StoreGet(store'), toMain') = ApplyAll(Persisted, toMain) ]_vars

\* C11 witness: an add and a remove of another target were in flight together;
\* both are answered, the add with both targets, the remove with the added one
\* alone, which is the persisted collection.
C11_Witness ==
  /\ toMain = << >>
  /\ Len(toRenderer) = 2
  /\ toRenderer[1].ch = "save-app" /\ toRenderer[2].ch = "delete-app"
  /\ Len(toRenderer[1].val) = 2
  /\ toRenderer[1].val[1].id # toRenderer[1].val[2].id
  /\ toRenderer[2].val = << toRenderer[1].val[2] >>
  /\ apps = << toRenderer[1].val[1] >>
  /\ store = toRenderer[2].val

\* the renderer resumes with the oldest response, which is for channel ch
Resumed(ch) ==
  /\ toRenderer # << >>
  /\ Head(toRenderer).ch = ch
  /\ toRenderer' = Tail(toRenderer)
  /\ Len(toMain') = Len(toMain)

\* C12: a get-apps, save-app or delete-app request that finds the store failing
\* is rejected and writes nothing; the renderer that resumes with the rejection
\* records the message of that operation, keeps its list (and, for an add, its
\* form) as it was, and sends no request again.
C12_StoreFailureSurfaced ==
  [][ \A ch \in {"get-apps", "save-app", "delete-app"} :
        /\ (Handled(ch) /\ ~Response.ok) => store' = store
        /\ (Resumed(ch) /\ ~Head(toRenderer).ok) =>
             /\ error' = (IF ch = "get-apps" THEN ErrLoad
                          ELSE IF ch = "save-app" THEN ErrSave ELSE ErrDelete)
             /\ apps' = apps
             /\ newApp' = newApp
             /\ toMain' = toMain
             /\ store' = store ]_vars

\* C12 witness: the add of a second target was rejected; the message of the
\* failed save is shown, the list is still the persisted one target, the form
\* still holds the candidate, and no request is on its way.
C12_Witness ==
  /\ error = ErrSave
  /\ Len(Persisted) = 1
  /\ apps = Persisted
  /\ ValidationError(newApp) = ""
  /\ toMain = << >> /\ toRenderer = << >>

\* C13: a stored target of type software has empty browser and url, and a
\* stored target of type browser has empty path and args.
C13_InactiveFieldsCleared ==
  \A k \in 1..Len(Persisted) :
    /\ Persisted[k].type = "software" =>
         (Persisted[k].browser = "" /\ Persisted[k].url = "")
    /\ Persisted[k].type = "browser" =>
         (Persisted[k].path = "" /\ Persisted[k].args = "")

\* how often x occurs in seq
Count(seq, x) == Cardinality({k \in 1..Len(seq) : seq[k] = x})

NoDuplicates(seq) == \A x \in {seq[k] : k \in 1..Len(seq)} : Count(seq, x) = 1

\* C14: the computed categories start with "all", hold "all" once, and hold no
\* name twice.
C14_CategoriesAllOnce ==
  /\ Categories[1] = All
  /\ Count(Categories, All) = 1
  /\ NoDuplicates(Categories)

\* C15: "all" is neither in the persisted custom-category list nor the
\* category of a stored target.
C15_AllNeverStored ==
  /\ Count(LoadCategories(localStorage), All) = 0
  /\ \A k \in 1..Len(Persisted) : Persisted[k].category # All

\* C16: for every name, addCategory appends it to the custom categories exactly
\* when it is non-empty and not in the list, and a second call with it changes
\* nothing; a step changes the list or its persisted copy only by appending the
\* name typed, non-empty and new, to both; and the list never holds a name
\* twice.
C16_AddCategory ==
  /\ [](/\ NoDuplicates(customCategories)
        /\ \A n \in NewCategoryTexts \cup {""} :
             /\ AddCategoryList(customCategories, n)
                  = (IF n # "" /\ Count(customCategories, n) = 0
                       THEN Append(customCategories, n) ELSE customCategories)
             /\ AddCategoryList(AddCategoryList(customCategories, n), n)
                  = AddCategoryList(customCategories, n))
  /\ [][ (customCategories' # customCategories \/ localStorage' # localStorage) =>
           /\ newCategory # ""
           /\ Count(customCategories, newCategory) = 0
           /\ customCategories' = Append(customCategories, newCategory)
           /\ localStorage' = customCategories' ]_vars

\* C16 witness: a fourth category was declared and persisted, the application
\* was started again and loaded it, and the dialog holds its name once more:
\* adding it now changes nothing.
C16_Witness ==
  /\ Len(customCategories) = Len(DefaultCategories) + 1
  /\ localStorage = customCategories
  /\ newApp.category = ""
  /\ showAddCategoryModal
  /\ newCategory = customCategories[Len(customCategories)]
  /\ AddCategoryList(customCategories, newCategory) = customCategories

\* C17: the persisted collection changes only when a save-app or a delete-app
\* request is handled: not when get-apps, launch-app, open-file-dialog or
\* get-basename is handled, not when a category is declared, not in any other
\* step.  A save-app keeps every stored target, with its fields, at its place; a
\* delete-app keeps every target of another id, with its fields, in its order.
C17_TargetsImmutable ==
  [][ /\ StoreGet(store') # Persisted => (Handled("save-app") \/ Handled("delete-app"))
      /\ \A ch \in {"get-apps", "launch-app", "open-file-dialog", "get-basename"} :
           Handled(ch) => StoreGet(store') = Persisted
      /\ customCategories' # customCategories => StoreGet(store') = Persisted
      /\ Handled("save-app") =>
           /\ Len(StoreGet(store')) = Len(Persisted) + 1
           /\ SubSeq(StoreGet(store'), 1, Len(Persisted)) = Persisted
      /\ Handled("delete-app") =>
           StoreGet(store') = SelectSeq(Persisted, LAMBDA t : t.id # Head(toMain).arg) ]_vars

\* C17 witness: two targets with different ids are stored; since the second was
\* added the first was launched, a file was picked and its name derived, and a
\* category was declared, and the answer of the launch is on its way.
C17_Witness ==
  /\ Len(Persisted) = 2
  /\ Persisted[1].id # Persisted[2].id
  /\ apps = Persisted
  /\ launched.handled /\ launched.app = AppToLaunch(Persisted[1])
  /\ newApp.path # "" /\ newApp.name = Basename(newApp.path)
  /\ Len(customCategories) > Len(DefaultCategories)

\* C18: the id of a target that addNewApp sends is none of the ids given to a
\* target before, whether that target is still stored or was removed.
C18_IdNeverReused ==
  [][ SaveSent => toMain'[Len(toMain')].arg.id \notin assigned ]_vars

\* C19: every target of the persisted collection has a name and a category, a
\* path when it is software and a url when it is browser.
C19_StoredTargetsValid ==
  \A k \in 1..Len(Persisted) :
    /\ Persisted[k].name # ""
    /\ Persisted[k].category # ""
    /\ Persisted[k].type = "software" => Persisted[k].path # ""
    /\ Persisted[k].type = "browser" => Persisted[k].url # ""

\* C19 witness: a software target added without a category chosen is stored
\* with its path and the default category, and an add from the form as the
\* first add left it, with no name, was turned down.
C19_Witness ==
  /\ Len(Persisted) = 1
  /\ Persisted[1].type = "software"
  /\ Persisted[1].path # ""
  /\ Persisted[1].category = Uncategorized
  /\ apps = Persisted
  /\ newApp.name = "" /\ error = ErrName

\* C20: the command a launch-app call hands to exec for a software target is
\* the path between double quotes, followed, exactly when args is not empty, by
\* one space and args as they are; it is the only command of the call.
C20_SoftwareCommand ==
  [][ (/\ Handled("launch-app")
       /\ Head(toMain).arg # NullTarget
       /\ Head(toMain).arg.type = "software"
       /\ launched'.cmds # << >>) =>
        LET app == Head(toMain).arg
            quoted == "\"" \o app.path \o "\""
        IN /\ Len(launched'.cmds) = 1
           /\ app.args = "" => launched'.cmds[1] = quoted
           /\ app.args # "" => launched'.cmds[1] = quoted \o " " \o app.args
           /\ [cmd |-> launched'.cmds[1], doomed |-> Doomed(app)]
                \in BagToSet(pendingExec') ]_vars

\* C20 witness: a software target with args that hold a space and quotes was
\* launched; the command handed to exec is the quoted path, a space and the
\* args unchanged, and its callback is outstanding.
C20_Witness ==
  /\ launched.handled
  /\ launched.app # NullTarget
  /\ launched.app.type = "software"
  /\ launched.app.args = "-v \"a b\""
  /\ launched.cmds = << "\"/opt/tool.exe\" -v \"a b\"" >>
  /\ [cmd |-> "\"/opt/tool.exe\" -v \"a b\"", doomed |-> FALSE] \in BagToSet(pendingExec)

(***************************************************************************)
(* The optional fields of a stored target.                                 *)
(***************************************************************************)
\* C23: a valid candidate whose category is empty is stored with the
\* Uncategorized sentinel as its category and one whose category is not empty
\* keeps it; a software candidate without args is stored with args = "".  The
\* request addNewApp sends carries these values, and save-app stores the request
\* as it is.
C23_DefaultsApplied ==
  [][ /\ SaveSent =>
           LET sent == toMain'[Len(toMain')].arg
           IN /\ newApp.category = "" => sent.category = Uncategorized
              /\ newApp.category # "" => sent.category = newApp.category
              /\ (newApp.type = "software" /\ newApp.args = "") => sent.args = ""
      /\ Handled("save-app") =>
           /\ Len(StoreGet(store')) = Len(Persisted) + 1
           /\ StoreGet(store')[Len(Persisted) + 1] = Head(toMain).arg ]_vars

\* a software target added with no category and no args is stored, and the
\* form, with a category chosen and args typed, has been submitted again
C23_Witness ==
  /\ Len(Persisted) = 1
  /\ Persisted[1].type = "software"
  /\ Persisted[1].category = Uncategorized
  /\ Persisted[1].args = ""
  /\ newApp.category = "work"
  /\ newApp.args = "-v"
  /\ newApp.name # ""
  /\ newApp.path # ""

(***************************************************************************)
(* The derived name.                                                       *)
(***************************************************************************)
\* the renderer resumes after the answer of get-basename
BasenameArrives ==
  /\ toRenderer # << >>
  /\ Head(toRenderer).ch = "get-basename"
  /\ toRenderer' = Tail(toRenderer)

\* C24: a name the user has typed is never replaced by the derived name: when
\* the answer of get-basename arrives while the name field holds a typed name,
\* the field keeps it.
C24_TypedNameKept ==
  [][ (BasenameArrives /\ newApp.name \in Names) => newApp'.name = newApp.name ]_vars

(***************************************************************************)
(* A launch that fails.                                                    *)
(***************************************************************************)
\* the renderer resumes after an answer of launch-app that is false or a rejection
LaunchFailureArrives ==
  /\ toRenderer # << >>
  /\ Head(toRenderer).ch = "launch-app"
  /\ toRenderer' = Tail(toRenderer)
  /\ (~Head(toRenderer).ok \/ Head(toRenderer).val = FALSE)

\* the main process answers the oldest request
Serve ==
  \/ HandleGetApps
  \/ HandleSaveApp
  \/ HandleDeleteApp
  \/ HandleLaunchApp
  \/ HandleOpenFileDialog
  \/ HandleGetBasename

\* C25: when a launch-app call is answered false or fails, the renderer sets
\* its launch-failed message; neither the call nor its answer changes the
\* registry or the list; and every request sent afterwards (as every request
\* at any time) can still be answered by the main process.
C25_LaunchFailureSurfaced ==
  /\ [](toMain # << >> => ENABLED Serve)
  /\ [][ /\ LaunchFailureArrives =>
              /\ error' = ErrLaunch
              /\ store' = store
              /\ apps' = apps
         /\ Handled("launch-app") => (store' = store /\ apps' = apps) ]_vars

\* a launch failed and its message is shown; the add sent after it has been
\* handled, the registry holds the new target and the answer is on its way
C25_Witness ==
  /\ error = ErrLaunch
  /\ launched = NoLaunch
  /\ toRenderer # << >>
  /\ Head(toRenderer).ch = "save-app"
  /\ Head(toRenderer).ok
  /\ Len(Persisted) = 2

(***************************************************************************)
(* The main window.                                                        *)
(***************************************************************************)
\* a BrowserWindow is constructed in this step
WindowCreated == windows' \ windows # {}

\* C26: at most one window exists at any time, and the reference names it.  A
\* window is created when the application becomes ready, once; after that one
\* is created only by an activate event that finds the reference reset and no
\* window existing; a step in which a window is closed resets the reference.
C26_AtMostOneWindow ==
  /\ [](/\ Cardinality(windows) <= 1
        /\ \A w \in windows : mainWindow = w.id)
  /\ [][ /\ WindowCreated =>
              /\ windows = {}
              /\ Cardinality(windows') = 1
              /\ \/ appPhase = "starting" /\ appPhase' = "ready" /\ created = 0
                 \/ appPhase = "ready" /\ mainWindow = NoWindow
         /\ (appPhase = "ready" /\ appPhase' = "ready" /\ windows' \subseteq windows
               /\ windows' # windows) => mainWindow' = NoWindow ]_vars

\* on macOS the first window was closed, the application stayed, and an
\* activate event created the second window
C26_Witness ==
  /\ platform = "darwin"
  /\ appPhase = "ready"
  /\ created = 2
  /\ mainWindow = "2"
  /\ Cardinality(windows) = 1
  /\ ~allClosed

(***************************************************************************)
(* The category list.                                                      *)
(***************************************************************************)
IsPrefix(short, long) ==
  /\ Len(short) <= Len(long)
  /\ SubSeq(long, 1, Len(short)) = short

\* C28: the list of custom categories only grows at its end: in every step
\* (a category declared or selected, a target added or removed, the
\* application started again) the list before is the beginning of the list
\* after, so no name leaves it and names keep their order; and a step that
\* changes the list leaves the persisted copy equal to it.
C28_CategoriesAppendOnly ==
  [][ /\ IsPrefix(customCategories, customCategories')
      /\ customCategories' # customCategories => localStorage' = customCategories' ]_vars

\* two categories were declared one after the other and persisted, the second
\* is selected, and the target of the earlier session has been removed
C28_Witness ==
  /\ Len(customCategories) = Len(DefaultCategories) + 2
  /\ SubSeq(customCategories, 1, Len(DefaultCategories)) = DefaultCategories
  /\ localStorage = customCategories
  /\ selectedCategory = customCategories[Len(customCategories)]
  /\ Persisted = << >>
  /\ apps = << >>

\* C29: the selected category is always one of the working categories: it is
\* "all" or another element of categories, whatever was selected, added or
\* removed before.
C29_SelectedIsCategory ==
  \E k \in 1..Len(Categories) : Categories[k] = selectedCategory

(***************************************************************************)
(* The list shown and the collection stored.                               *)
(***************************************************************************)
\* no request of the renderer is waiting for the main process or for its answer
Quiescent == toMain = << >> /\ toRenderer = << >>

\* C30: once every list, add and remove request of the renderer has been
\* answered and the renderer has taken the answer, the list it shows is the
\* persisted collection: the same targets in the same order.
C30_ViewConverges ==
  Quiescent => apps = Persisted

\* two targets were added and every request has been answered: both are
\* stored, and the list shows them in the order they were added
C30_Witness ==
  /\ Quiescent
  /\ Len(Persisted) = 2
  /\ apps = Persisted
  /\ newApp.name = ""

(***************************************************************************)
(* The command of a browser target.                                        *)
(***************************************************************************)
\* the launch-app call being handled is for an Edge or Chrome target, and the
\* handler reaches the exec call of that target
BrowserCommandIssued ==
  /\ Handled("launch-app")
  /\ Head(toMain).arg # NullTarget
  /\ Head(toMain).arg.type = "browser"
  /\ Head(toMain).arg.browser \in {"edge", "chrome"}
  /\ Response.ok /\ Response.val = TRUE

\* the command the text of the claim gives for the url https://a.com
ClaimedBrowserCommand(browser, plat) ==
  IF browser = "edge"
    THEN IF plat = "win32" THEN "start microsoft-edge:https://a.com"
         ELSE IF plat = "darwin" THEN "open -a \"Microsoft Edge\" \"https://a.com\""
         ELSE "microsoft-edge \"https://a.com\""
    ELSE IF plat = "win32" THEN "start chrome \"https://a.com\""
         ELSE IF plat = "darwin" THEN "open -a \"Google Chrome\" \"https://a.com\""
         ELSE "google-chrome \"https://a.com\""

\* C22: the command handed to exec for an Edge or Chrome target is fixed by the
\* browser, the platform and the url: Edge is start microsoft-edge: with the url
\* appended on Windows, open -a "Microsoft Edge" with the quoted url on macOS and
\* microsoft-edge with the quoted url elsewhere; Chrome is start chrome, open -a
\* "Google Chrome" and google-chrome, each with the quoted url; a platform that
\* is neither Windows nor macOS gets the Linux command.
C22_BrowserCommand ==
  [][ BrowserCommandIssued =>
        /\ Head(toMain).arg.url = "https://a.com"
        /\ launched'.cmds # << >>
        /\ launched'.cmds[Len(launched'.cmds)]
             = ClaimedBrowserCommand(Head(toMain).arg.browser, platform) ]_vars

\* a Chrome target was launched on a platform other than the three named ones
C22_Witness ==
  /\ launched.handled
  /\ launched.ret = TRUE
  /\ platform = "freebsd"
  /\ launched.app # NullTarget
  /\ launched.app.browser = "chrome"
  /\ launched.cmds # << >>
  /\ launched.cmds[Len(launched.cmds)] = "google-chrome \"https://a.com\""

(***************************************************************************)
(* The Edge batch launcher.                                                *)
(***************************************************************************)
\* the number of places of the text s at which pat occurs
Occurrences(s, pat) ==
  Cardinality({i \in 1..(Len(s) - Len(pat) + 1) : SubSeq(s, i, i + Len(pat) - 1) = pat})

Quoted(u) == "\"" \o u \o "\""

RECURSIVE QuotedInOrder(_)
\* every url as its own double-quoted segment, in list order, one space between
QuotedInOrder(items) ==
  IF Len(items) = 1 THEN Quoted(items[1])
  ELSE QuotedInOrder(SubSeq(items, 1, Len(items) - 1)) \o " " \o Quoted(items[Len(items)])

RECURSIVE ChainedOpens(_)
\* one open-with-Edge invocation per url, in list order, joined by &&
ChainedOpens(items) ==
  "open -a \"Microsoft Edge\" " \o Quoted(items[1])
    \o (IF Len(items) = 1 THEN "" ELSE " && " \o ChainedOpens(Tail(items)))

\* the batch launcher was called with a list that has a url in it
BatchOfUrls ==
  /\ batch.called
  /\ urls.isArray
  /\ Len(urls.items) > 0

\* C21: a batch launch of a non-empty url list hands exactly one command to
\* exec.  On Windows it is one start microsoft-edge: invocation followed by every
\* url as its own quoted segment in list order; on macOS one open -a "Microsoft
\* Edge" invocation per url in list order, N invocations joined by N-1 "&&"; on
\* any other platform microsoft-edge followed by every url quoted, in list order.
C21_BatchCommand ==
  BatchOfUrls =>
    /\ Len(batch.cmds) = 1
    /\ LET cmd == batch.cmds[1]
           n == Len(urls.items)
       IN /\ platform = "win32" =>
               /\ cmd = "start microsoft-edge:" \o QuotedInOrder(urls.items)
               /\ Occurrences(cmd, "microsoft-edge:") = 1
               /\ Occurrences(cmd, "\"") = 2 * n
          /\ platform = "darwin" =>
               /\ cmd = ChainedOpens(urls.items)
               /\ Occurrences(cmd, "open -a \"Microsoft Edge\" ") = n
               /\ Occurrences(cmd, " && ") = n - 1
          /\ platform \notin {"win32", "darwin"} =>
               /\ cmd = "microsoft-edge " \o QuotedInOrder(urls.items)
               /\ Occurrences(cmd, "\"") = 2 * n

\* two urls are launched on macOS: two invocations and one connector
C21_Witness ==
  /\ batch.called
  /\ platform = "darwin"
  /\ urls = UrlList(<< "https://a.com", "https://b.com" >>)
  /\ batch.cmds = << "open -a \"Microsoft Edge\" \"https://a.com\" && open -a \"Microsoft Edge\" \"https://b.com\"" >>
  /\ BagCardinality(pendingExec) = 1

\* the batch launcher was called with the empty list or with no list
BatchOfNothing ==
  /\ batch.called
  /\ IF urls.isArray THEN Len(urls.items) = 0 ELSE TRUE

\* C27: a batch launch of the empty list, or of a value that is not a list,
\* hands no command to exec on any platform: it writes the invalid-input error
\* and returns.
C27_EmptyBatchIssuesNothing ==
  BatchOfNothing =>
    /\ batch.cmds = << >>
    /\ batch.log = ErrInvalidUrls
    /\ pendingExec = EmptyBag
    /\ console = ErrInvalidUrls

\* the empty list is passed on macOS
C27_Witness ==
  /\ batch.called
  /\ urls = UrlList(<< >>)
  /\ platform = "darwin"
  /\ console = ErrInvalidUrls
  /\ pendingExec = EmptyBag

====
